---- MODULE Spec2Model ----
(***************************************************************************)
(* Model of src/src/bootstrap/bootstrap.py: the VAF prefilter, the quality *)
(* gate of main, the resampling engine bootstrap_va_dt with its bounded    *)
(* zero-avoidance retry loop, the iteration assembler and the output       *)
(* writer.  Random draws (np.random.multinomial, np.random.binomial) are   *)
(* nondeterministic choices over the support of the distribution.          *)
(***************************************************************************)
EXTENDS Integers, Sequences, FiniteSets, TLC

VARIABLES
    pc,                 \* position of the single thread of control
    input,              \* the input file as main finds it: [kind, cols, table]
    output_dir,         \* args.output_dir, a path (sequence of components)
    num_bootstraps,     \* args.num_bootstraps
    main_df,            \* main: input_ssm_df
    filtered_ssm_df,    \* main: filtered_ssm_df
    pf_df,              \* apply_vaf_prefiltering: input_ssm_df
    pf_idx,             \* apply_vaf_prefiltering: position of iterrows()
    filtered_mutations, \* apply_vaf_prefiltering: filtered_mutations
    proc_df,            \* process_and_bootstrap_ssm: input_ssm_df
    proc_idx,           \* process_and_bootstrap_ssm: position of iterrows()
    all_data,           \* all_bootstrapped_iterations_data
    write_i,            \* process_and_bootstrap_ssm: i of the writing loop
    AF_list,            \* bootstrap_va_dt: AF_list
    Depth_list,         \* bootstrap_va_dt: Depth_list
    count,              \* bootstrap_va_dt: count
    new_Depth,          \* bootstrap_va_dt: new_Depth_list_transposed (B x S)
    floored,            \* bootstrap_va_dt: the branch of line 72 was taken
    AF_list_update,     \* bootstrap_va_dt: AF_list_update (S x B)
    dirs,               \* file system: directories created by the run
    files,              \* file system: files written by the run
    exit_code           \* process exit status, -1 while running

vars == <<pc, input, output_dir, num_bootstraps, main_df, filtered_ssm_df,
          pf_df, pf_idx, filtered_mutations, proc_df, proc_idx, all_data,
          write_i, AF_list, Depth_list, count, new_Depth, floored,
          AF_list_update, dirs, files, exit_code>>

main_vars == <<input, output_dir, main_df, filtered_ssm_df>>
pf_vars == <<pf_df, pf_idx, filtered_mutations>>
proc_vars == <<proc_df, proc_idx, all_data, write_i>>
boot_vars == <<AF_list, Depth_list, count, new_Depth, floored, AF_list_update>>
fs_vars == <<dirs, files>>

(***************************************************************************)
(* Bounds of the model.                                                    *)
(***************************************************************************)
MaxSamples == 2
MaxDepth == 2
MaxBoot == 2
MaxRows == 6
MaxFilterRows == 3
MaxAsmRows == 2

(***************************************************************************)
(* Program constants.                                                      *)
(***************************************************************************)
MaxAttempts == 10
min_mutations == 5
ThresholdNum == 9
ThresholdDen == 10

(***************************************************************************)
(* Arithmetic helpers.                                                     *)
(***************************************************************************)
Min(x, y) == IF x <= y THEN x ELSE y
Max(x, y) == IF x >= y THEN x ELSE y

RECURSIVE Sum(_)
Sum(s) == IF s = <<>> THEN 0 ELSE Head(s) + Sum(Tail(s))

\* np.round of the rational n/d (d > 0, n >= 0): round half to even.
RoundHalfEven(n, d) ==
    LET q == n \div d
        r == n % d
    IN  IF 2 * r < d THEN q
        ELSE IF 2 * r > d THEN q + 1
        ELSE IF q % 2 = 0 THEN q ELSE q + 1

RECURSIVE SeqProduct(_)
SeqProduct(sets) ==
    IF sets = <<>> THEN {<<>>}
    ELSE UNION {{<<x>> \o rest : rest \in SeqProduct(Tail(sets))} : x \in Head(sets)}

(***************************************************************************)
(* Data model.  A cell of column a or d is a Python int (tag "int", one    *)
(* token) or a Python str (tag "str"), kept as its comma-separated tokens; *)
(* a token either parses with int() or makes int() raise ValueError.       *)
(***************************************************************************)
Tok(n) == [ok |-> TRUE, v |-> n]
Junk == [ok |-> FALSE, v |-> 0]
IntCell(n) == [tag |-> "int", toks |-> <<Tok(n)>>]
StrCell(ts) == [tag |-> "str", toks |-> ts]
IntToks(ns) == [i \in 1..Len(ns) |-> Tok(ns[i])]

MkRow(id, a, d) ==
    [id |-> id, gene |-> [sym |-> "gene", n |-> id], a |-> a, d |-> d,
     mu_r |-> [par |-> "mu_r", n |-> id], mu_v |-> [par |-> "mu_v", n |-> id]]

required_cols == {"id", "gene", "a", "d", "mu_r", "mu_v"}

\* A path is a sequence of components; bootstrap<k> is the k-th replicate's.
Comp(name) == [name |-> name, n |-> 0]
BootComp(k) == [name |-> "bootstrap", n |-> k]
WriteFile(fs, path, data) ==
    {f \in fs : f.path # path} \cup {[path |-> path, data |-> data]}
RECURSIVE Prefixes(_)
Prefixes(path) ==
    IF path = <<>> THEN {}
    ELSE {path} \cup Prefixes(SubSeq(path, 1, Len(path) - 1))

(***************************************************************************)
(* Parsing and validation of one row, as apply_vaf_prefiltering does it.   *)
(***************************************************************************)
\* str(cell) as one element of a list; int() of it succeeds only when the
\* text holds a single parseable integer.
StrOf(cell) == IF Len(cell.toks) = 1 THEN cell.toks[1] ELSE Junk

\* The try block: the result of the parse, or ok = FALSE where the code
\* skips the row (length mismatch, ValueError, AttributeError, TypeError).
ParseCounts(row) ==
    LET isstr == row.a.tag = "str"
        ref_counts_str == IF isstr THEN row.a.toks ELSE <<StrOf(row.a)>>
        depth_counts_str == IF isstr THEN row.d.toks ELSE <<StrOf(row.d)>>
        raises == isstr /\ row.d.tag # "str"
        parsed == /\ ~raises
                  /\ Len(ref_counts_str) = Len(depth_counts_str)
                  /\ \A i \in 1..Len(ref_counts_str) :
                        ref_counts_str[i].ok /\ depth_counts_str[i].ok
    IN  IF parsed
        THEN [ok |-> TRUE,
              ref_counts |-> [i \in 1..Len(ref_counts_str) |-> ref_counts_str[i].v],
              depth_counts |-> [i \in 1..Len(depth_counts_str) |-> depth_counts_str[i].v]]
        ELSE [ok |-> FALSE, ref_counts |-> <<>>, depth_counts |-> <<>>]

\* The sanity check of one sample; an invalid sample is skipped.
ValidSample(ref_count, total_depth) ==
    ~(total_depth < 0 \/ ref_count < 0 \/ ref_count > total_depth)

\* A VAF is kept as the exact fraction num/den.
Vaf(ref_count, total_depth) ==
    IF total_depth = 0 THEN [num |-> 0, den |-> 1]
    ELSE [num |-> total_depth - ref_count, den |-> total_depth]

\* vafs: the VAFs of the valid samples, in sample order.
RECURSIVE Vafs(_, _)
Vafs(ref_counts, depth_counts) ==
    IF ref_counts = <<>> THEN <<>>
    ELSE (IF ValidSample(Head(ref_counts), Head(depth_counts))
          THEN <<Vaf(Head(ref_counts), Head(depth_counts))>>
          ELSE <<>>) \o Vafs(Tail(ref_counts), Tail(depth_counts))

\* vaf < threshold, the threshold being num/den.
\* Variant: the comparison is <= instead of <.
VafBelow_inclusive(vaf, num, den) == vaf.num * den <= num * vaf.den
VafBelow(vaf, num, den) == vaf.num * den < num * vaf.den

\* valid_sample_found
\* Variant: one invalid sample discards the whole mutation.
ValidSampleFound_all(ref_counts, depth_counts) ==
    \A i \in 1..Len(ref_counts) : ValidSample(ref_counts[i], depth_counts[i])
ValidSampleFound(ref_counts, depth_counts) ==
    \E i \in 1..Len(ref_counts) : ValidSample(ref_counts[i], depth_counts[i])

\* Whether the loop body appends the row to filtered_mutations.
PrefilterKeeps(row, num, den) ==
    LET p == ParseCounts(row)
        vafs == Vafs(p.ref_counts, p.depth_counts)
    IN  /\ p.ok
        /\ ValidSampleFound(p.ref_counts, p.depth_counts)
        /\ \A k \in 1..Len(vafs) : VafBelow(vafs[k], num, den)

(***************************************************************************)
(* apply_vaf_prefiltering: one step per row of iterrows(), then the return.*)
(***************************************************************************)
\* Variant: a survivor is put in front of the earlier survivors.
PfIterRow_prepend ==
    /\ pc = "pf_loop"
    /\ pf_idx <= Len(pf_df)
    /\ filtered_mutations' =
          IF PrefilterKeeps(pf_df[pf_idx], ThresholdNum, ThresholdDen)
          THEN <<pf_df[pf_idx]>> \o filtered_mutations
          ELSE filtered_mutations
    /\ pf_idx' = pf_idx + 1
    /\ UNCHANGED <<pc, pf_df, main_vars, num_bootstraps, proc_vars, boot_vars,
                   fs_vars, exit_code>>
PfIterRow ==
    /\ pc = "pf_loop"
    /\ pf_idx <= Len(pf_df)
    /\ filtered_mutations' =
          IF PrefilterKeeps(pf_df[pf_idx], ThresholdNum, ThresholdDen)
          THEN Append(filtered_mutations, pf_df[pf_idx])
          ELSE filtered_mutations
    /\ pf_idx' = pf_idx + 1
    /\ UNCHANGED <<pc, pf_df, main_vars, num_bootstraps, proc_vars, boot_vars,
                   fs_vars, exit_code>>

PfReturn ==
    /\ pc = "pf_loop"
    /\ pf_idx > Len(pf_df)
    /\ pc' = "pf_done"
    /\ UNCHANGED <<pf_vars, main_vars, num_bootstraps, proc_vars, boot_vars,
                   fs_vars, exit_code>>

(***************************************************************************)
(* Input tables.  A table is a sequence of rows whose id is the position.  *)
(***************************************************************************)
RowKind(k) ==
    CASE k = "keep80"       -> [a |-> IntCell(2), d |-> IntCell(10)]
      [] k = "edge90"       -> [a |-> IntCell(1), d |-> IntCell(10)]
      [] k = "keep85zero"   -> [a |-> StrCell(IntToks(<<3, 0>>)),
                                d |-> StrCell(IntToks(<<20, 0>>))]
      [] k = "high95"       -> [a |-> StrCell(IntToks(<<3, 1>>)),
                                d |-> StrCell(IntToks(<<20, 20>>))]
      [] k = "mismatch"     -> [a |-> StrCell(IntToks(<<5>>)),
                                d |-> StrCell(IntToks(<<4, 1>>))]
      [] k = "junk"         -> [a |-> StrCell(<<Junk>>),
                                d |-> StrCell(IntToks(<<1>>))]
      [] k = "invalid_high" -> [a |-> StrCell(IntToks(<<2, 1>>)),
                                d |-> StrCell(IntToks(<<1, 10>>))]
      [] k = "no_valid"     -> [a |-> IntCell(2), d |-> IntCell(1)]
      [] k = "invalid_keep" -> [a |-> StrCell(IntToks(<<-1, 2>>)),
                                d |-> StrCell(IntToks(<<1, 10>>))]
      [] k = "a_str_d_int"  -> [a |-> StrCell(IntToks(<<1>>)), d |-> IntCell(5)]
      [] k = "good"         -> [a |-> IntCell(1), d |-> IntCell(1)]
      [] k = "bad"          -> [a |-> IntCell(0), d |-> IntCell(1)]
      [] k = "single12"     -> [a |-> IntCell(1), d |-> IntCell(2)]
      [] k = "pair10"       -> [a |-> StrCell(IntToks(<<1, 0>>)),
                                d |-> StrCell(IntToks(<<1, 0>>))]
      [] k = "invalid_ok"   -> [a |-> StrCell(IntToks(<<2, 1>>)),
                                d |-> StrCell(IntToks(<<1, 1>>))]

FilterKinds == {"keep80", "edge90", "keep85zero", "high95", "mismatch", "junk",
                "invalid_high", "no_valid", "invalid_keep", "a_str_d_int"}
MainKinds == {"good", "bad", "junk"}
AsmKinds == {"single12", "pair10", "invalid_ok", "junk", "no_valid", "bad"}

TableOf(ks) == [i \in 1..Len(ks) |-> MkRow(i, RowKind(ks[i]).a, RowKind(ks[i]).d)]

\* Values of the variables an operation does not use.
Idle ==
    /\ input = [kind |-> "none", cols |-> {}, table |-> <<>>]
    /\ output_dir = <<>>
    /\ main_df = <<>>
    /\ filtered_ssm_df = <<>>

InitFilter ==
    /\ pc = "pf_loop"
    /\ \E n \in 0..MaxFilterRows : \E ks \in [1..n -> FilterKinds] : pf_df = TableOf(ks)
    /\ pf_idx = 1
    /\ filtered_mutations = <<>>
    /\ Idle
    /\ num_bootstraps = 0
    /\ proc_df = <<>> /\ proc_idx = 0 /\ all_data = <<>> /\ write_i = 0
    /\ AF_list = <<>> /\ Depth_list = <<>> /\ count = 0 /\ new_Depth = <<>>
    /\ floored = FALSE /\ AF_list_update = <<>>
    /\ dirs = {} /\ files = {} /\ exit_code = -1

NextFilter == PfIterRow \/ PfReturn
SpecFilter == InitFilter /\ [][NextFilter]_vars

(***************************************************************************)
(* bootstrap_va_dt: the resampling engine for one mutation.                *)
(***************************************************************************)
\* pvals = Depth_array / total_depth_sum, as exact fractions.
Pvals(Depth_array) ==
    [i \in 1..Len(Depth_array) |-> [num |-> Depth_array[i], den |-> Sum(Depth_array)]]

\* The outcomes of one multinomial draw of n reads: the vectors that sum to n
\* and give no read to a category of probability 0.
\* Variant: a category of probability 0 can receive reads.
MultinomialSupport_anycat(n, pvals) ==
    {v \in [1..Len(pvals) -> 0..n] : Sum(v) = n}
RECURSIVE MultinomialSupport(_, _)
MultinomialSupport(n, pvals) ==
    IF pvals = <<>> THEN (IF n = 0 THEN {<<>>} ELSE {})
    ELSE UNION {{<<x>> \o rest : rest \in MultinomialSupport(n - x, Tail(pvals))} :
                  x \in (IF Head(pvals).num = 0 THEN {0} ELSE 0..n)}

\* np.random.multinomial(n, pvals, size): the possible (size x S) batches.
\* Variant: each category is drawn on its own, the total is not kept.
multinomial_independent(n, pvals, size) ==
    [1..size -> SeqProduct([i \in 1..Len(pvals) |->
                               IF pvals[i].num = 0 THEN {0} ELSE 0..n])]
multinomial(n, pvals, size) == [1..size -> MultinomialSupport(n, pvals)]

\* np.zeros((bootstrap_num, len(Depth_array)))
Zeros(bootstrap_num, S) == [j \in 1..bootstrap_num |-> [i \in 1..S |-> 0]]

\* The condition of line 68.
\* Variant: the test for a zero total depth is missing.
BreakCond_nozero(batch, total_depth_sum) ==
    ~(\E j \in 1..Len(batch) : \E i \in 1..Len(batch[j]) : batch[j][i] = 0)
BreakCond(batch, total_depth_sum) ==
    \/ ~(\E j \in 1..Len(batch) : \E i \in 1..Len(batch[j]) : batch[j][i] = 0)
    \/ total_depth_sum = 0

\* Lines 74-78: zeros become 1 where the original depth was non-zero.
\* Variant: the mask of the original non-zero depths is missing.
FloorSubst_nomask(batch, Depth_array) ==
    [j \in 1..Len(batch) |-> [i \in 1..Len(batch[j]) |->
        IF batch[j][i] = 0 THEN 1 ELSE batch[j][i]]]
\* Variant: the floor is 2 reads instead of 1.
FloorSubst_two(batch, Depth_array) ==
    [j \in 1..Len(batch) |-> [i \in 1..Len(batch[j]) |->
        IF batch[j][i] = 0 /\ Depth_array[i] > 0 THEN 2 ELSE batch[j][i]]]
FloorSubst(batch, Depth_array) ==
    [j \in 1..Len(batch) |-> [i \in 1..Len(batch[j]) |->
        IF batch[j][i] = 0 /\ Depth_array[i] > 0 THEN 1 ELSE batch[j][i]]]

\* The outcomes of np.random.binomial(n, p), p an exact fraction in [0, 1].
binomial(n, p) ==
    IF p.num = 0 THEN {0} ELSE IF p.num = p.den THEN {n} ELSE 0..n

\* The possible values of AF_list_update[i, j].
CellVafs(current_depth, original_vaf) ==
    IF current_depth = 0 THEN {[num |-> 0, den |-> 1]}
    ELSE {[num |-> variant_reads_sample, den |-> current_depth] :
             variant_reads_sample \in binomial(current_depth, original_vaf)}

\* The possible AF_list_update matrices (S x B) for a depth batch (B x S).
AFUpdates(AF, batch) ==
    SeqProduct([i \in 1..Len(AF) |->
        SeqProduct([j \in 1..Len(batch) |-> CellVafs(batch[j][i], AF[i])])])

\* Line 72: the attempts are used up.
\* Variant: the comparison is > instead of >=.
AttemptsExhausted_late(c) == c > MaxAttempts
AttemptsExhausted(c) == c >= MaxAttempts

\* Lines 58-65: one more attempt, a fresh batch.
BootDraw ==
    /\ pc = "boot_draw"
    /\ count' = count + 1
    /\ new_Depth' \in
          IF Sum(Depth_list) = 0
          THEN {Zeros(num_bootstraps, Len(Depth_list))}
          ELSE multinomial(Sum(Depth_list), Pvals(Depth_list), num_bootstraps)
    /\ pc' = "boot_check"
    /\ UNCHANGED <<main_vars, num_bootstraps, pf_vars, proc_vars, AF_list,
                   Depth_list, floored, AF_list_update, fs_vars, exit_code>>

\* Lines 68-79: leave the loop, substitute the floor and leave, or go round.
\* A rejected batch is dead: line 61 or 63 rebinds the name before any read.
BootCheck ==
    /\ pc = "boot_check"
    /\ IF BreakCond(new_Depth, Sum(Depth_list))
       THEN pc' = "boot_binom" /\ UNCHANGED <<new_Depth, floored>>
       ELSE IF AttemptsExhausted(count)
            THEN /\ new_Depth' = FloorSubst(new_Depth, Depth_list)
                 /\ floored' = TRUE
                 /\ pc' = "boot_binom"
            ELSE pc' = "boot_draw" /\ new_Depth' = <<>> /\ UNCHANGED floored
    /\ UNCHANGED <<main_vars, num_bootstraps, pf_vars, proc_vars, AF_list,
                   Depth_list, count, AF_list_update, fs_vars, exit_code>>

\* Lines 82-101: the binomial draws of every cell, and the return.
BootBinomial ==
    /\ pc = "boot_binom"
    /\ AF_list_update' \in AFUpdates(AF_list, new_Depth)
    /\ pc' = "proc_assemble"
    /\ UNCHANGED <<main_vars, num_bootstraps, pf_vars, proc_vars, AF_list,
                   Depth_list, count, new_Depth, floored, fs_vars, exit_code>>

(***************************************************************************)
(* process_and_bootstrap_ssm: the iteration assembler.                     *)
(***************************************************************************)
\* The try block of lines 217-239.
ProcParseCounts(row) ==
    LET isstr == row.a.tag = "str"
        ref_counts_str == IF isstr THEN row.a.toks ELSE <<StrOf(row.a)>>
        depth_counts_str == IF isstr THEN row.d.toks ELSE <<StrOf(row.d)>>
        raises == isstr /\ row.d.tag # "str"
        parsed == /\ ~raises
                  /\ Len(ref_counts_str) = Len(depth_counts_str)
                  /\ \A i \in 1..Len(ref_counts_str) :
                        ref_counts_str[i].ok /\ depth_counts_str[i].ok
    IN  IF parsed
        THEN [ok |-> TRUE,
              ref_counts |-> [i \in 1..Len(ref_counts_str) |-> ref_counts_str[i].v],
              depth_counts |-> [i \in 1..Len(depth_counts_str) |-> depth_counts_str[i].v]]
        ELSE [ok |-> FALSE, ref_counts |-> <<>>, depth_counts |-> <<>>]

\* vaf_list_for_mutation and depth_list_for_mutation: the valid samples only.
RECURSIVE vaf_list_for_mutation(_, _)
vaf_list_for_mutation(ref_counts, depth_counts) ==
    IF ref_counts = <<>> THEN <<>>
    ELSE (IF Head(depth_counts) < 0 \/ Head(ref_counts) < 0
             \/ Head(ref_counts) > Head(depth_counts)
          THEN <<>>
          ELSE IF Head(depth_counts) = 0
               THEN <<[num |-> 0, den |-> 1]>>
               ELSE <<[num |-> Head(depth_counts) - Head(ref_counts),
                       den |-> Head(depth_counts)]>>)
         \o vaf_list_for_mutation(Tail(ref_counts), Tail(depth_counts))

RECURSIVE depth_list_for_mutation(_, _)
depth_list_for_mutation(ref_counts, depth_counts) ==
    IF ref_counts = <<>> THEN <<>>
    ELSE (IF Head(depth_counts) < 0 \/ Head(ref_counts) < 0
             \/ Head(ref_counts) > Head(depth_counts)
          THEN <<>>
          ELSE <<Head(depth_counts)>>)
         \o depth_list_for_mutation(Tail(ref_counts), Tail(depth_counts))

\* Whether lines 217-266 skip the row.
\* Variant: one invalid sample makes the assembler skip the whole mutation.
ProcSkips_any_invalid(row) ==
    LET p == ProcParseCounts(row)
    IN  \/ ~p.ok
        \/ Len(depth_list_for_mutation(p.ref_counts, p.depth_counts)) < Len(p.depth_counts)
ProcSkips(row) ==
    LET p == ProcParseCounts(row)
    IN  ~p.ok \/ depth_list_for_mutation(p.ref_counts, p.depth_counts) = <<>>

\* Lines 281-287: the reference counts of one replicate, clamped to [0, depth].
NewRefCounts(current_iter_vafs, current_iter_depths) ==
    [i \in 1..Len(current_iter_depths) |->
        LET new_variant_count ==
                RoundHalfEven(current_iter_vafs[i].num * current_iter_depths[i],
                              current_iter_vafs[i].den)
        IN  Min(Max(current_iter_depths[i] - new_variant_count, 0),
                current_iter_depths[i])]

\* Lines 290-300: the record of one mutation in one replicate.
\* Variant: columns a and d are exchanged.
BootstrapRecord_swapped(row, new_ref_counts, current_iter_depths) ==
    [id |-> row.id, gene |-> row.gene,
     a |-> StrCell(IntToks(current_iter_depths)),
     d |-> StrCell(IntToks(new_ref_counts)),
     mu_r |-> row.mu_r, mu_v |-> row.mu_v]
BootstrapRecord(row, new_ref_counts, current_iter_depths) ==
    [id |-> row.id, gene |-> row.gene,
     a |-> StrCell(IntToks(new_ref_counts)),
     d |-> StrCell(IntToks(current_iter_depths)),
     mu_r |-> row.mu_r, mu_v |-> row.mu_v]

\* boot_vaf_array[:, k]
\* Variant: every replicate reads the first column.
Column_first(m, k) == [i \in 1..Len(m) |-> m[i][1]]
Column(m, k) == [i \in 1..Len(m) |-> m[i][k]]

\* Lines 211-272: the next row is skipped, or handed to bootstrap_va_dt.
ProcIterRow ==
    /\ pc = "proc_loop"
    /\ proc_idx <= Len(proc_df)
    /\ LET row == proc_df[proc_idx]
           p == ProcParseCounts(row)
       IN  IF ProcSkips(row)
           THEN /\ proc_idx' = proc_idx + 1
                /\ UNCHANGED <<pc, boot_vars>>
           ELSE /\ AF_list' = vaf_list_for_mutation(p.ref_counts, p.depth_counts)
                /\ Depth_list' = depth_list_for_mutation(p.ref_counts, p.depth_counts)
                /\ count' = 0
                /\ new_Depth' = <<>>
                /\ floored' = FALSE
                /\ AF_list_update' = <<>>
                /\ pc' = "boot_draw"
                /\ UNCHANGED proc_idx
    /\ UNCHANGED <<main_vars, num_bootstraps, pf_vars, proc_df, all_data,
                   write_i, fs_vars, exit_code>>

\* Lines 274-300: one record per replicate for the mutation just resampled.
ProcAssemble ==
    /\ pc = "proc_assemble"
    /\ all_data' =
          [k \in 1..num_bootstraps |->
              Append(all_data[k],
                     BootstrapRecord(proc_df[proc_idx],
                                     NewRefCounts(Column(AF_list_update, k), new_Depth[k]),
                                     new_Depth[k]))]
    /\ proc_idx' = proc_idx + 1
    /\ pc' = "proc_loop"
    /\ UNCHANGED <<main_vars, num_bootstraps, pf_vars, proc_df, write_i,
                   boot_vars, fs_vars, exit_code>>

\* Line 304: the rows are exhausted, the writing loop starts.
ProcStartWrite ==
    /\ pc = "proc_loop"
    /\ proc_idx > Len(proc_df)
    /\ write_i' = 0
    /\ pc' = "proc_write"
    /\ UNCHANGED <<main_vars, num_bootstraps, pf_vars, proc_df, proc_idx,
                   all_data, boot_vars, fs_vars, exit_code>>

(***************************************************************************)
(* write_bootstrapped_ssm_file: the output writer.                         *)
(***************************************************************************)
\* Variant: the replicate directories are numbered from 0.
bootstrap_sub_dir_zero_based(out, bootstrap_iteration_num) ==
    Append(out, BootComp(bootstrap_iteration_num - 1))
bootstrap_sub_dir(out, bootstrap_iteration_num) ==
    Append(out, BootComp(bootstrap_iteration_num))

\* Line 305 with the whole of write_bootstrapped_ssm_file (lines 113-129).
ProcWrite ==
    /\ pc = "proc_write"
    /\ write_i < num_bootstraps
    /\ LET sub == bootstrap_sub_dir(output_dir, write_i + 1)
       IN  /\ dirs' = dirs \cup Prefixes(sub)
           /\ files' = WriteFile(
                 WriteFile(files, Append(sub, Comp("ssm.txt")),
                           [header |-> TRUE, rows |-> all_data[write_i + 1]]),
                 Append(sub, Comp("cnv.txt")),
                 [header |-> FALSE, rows |-> <<>>])
    /\ write_i' = write_i + 1
    /\ UNCHANGED <<pc, main_vars, num_bootstraps, pf_vars, proc_df, proc_idx,
                   all_data, boot_vars, exit_code>>

ProcReturn ==
    /\ pc = "proc_write"
    /\ write_i >= num_bootstraps
    /\ pc' = "proc_done"
    /\ UNCHANGED <<main_vars, num_bootstraps, pf_vars, proc_vars, boot_vars,
                   fs_vars, exit_code>>

(***************************************************************************)
(* The assembler and the engine on one mutation with arbitrary counts, up  *)
(* to the regrouping of its records into the replicates.                   *)
(***************************************************************************)
\* One row of up to MaxSamples samples, each count in 0..MaxDepth (a sample
\* with a > d is invalid), the depths summing to at most MaxDepth; a single
\* sample comes in both encodings.
CountLists(n) == [1..n -> 0..MaxDepth]
DepthLists(n) ==
    {ds \in CountLists(n) : Sum([i \in 1..n |-> Max(ds[i], 0)]) <= MaxDepth}

EngineRow(n, rs, ds) ==
    IF n = 0 THEN MkRow(1, IntCell(rs[1]), IntCell(ds[1]))
    ELSE MkRow(1, StrCell(IntToks(rs)), StrCell(IntToks(ds)))

InitEngine ==
    /\ pc = "proc_loop"
    /\ \E n \in 0..MaxSamples :
          \E rs \in CountLists(Max(n, 1)), ds \in DepthLists(Max(n, 1)) :
             proc_df = <<EngineRow(n, rs, ds)>>
    /\ proc_idx = 1
    /\ num_bootstraps \in 1..MaxBoot
    /\ all_data = [k \in 1..num_bootstraps |-> <<>>]
    /\ write_i = 0
    /\ input = [kind |-> "none", cols |-> {}, table |-> <<>>]
    /\ output_dir = <<Comp("out")>>
    /\ main_df = <<>>
    /\ filtered_ssm_df = <<>>
    /\ pf_df = <<>> /\ pf_idx = 0 /\ filtered_mutations = <<>>
    /\ AF_list = <<>> /\ Depth_list = <<>> /\ count = 0 /\ new_Depth = <<>>
    /\ floored = FALSE /\ AF_list_update = <<>>
    /\ dirs = {} /\ files = {} /\ exit_code = -1

NextEngine ==
    \/ ProcIterRow
    \/ BootDraw
    \/ BootCheck
    \/ BootBinomial
    \/ ProcAssemble

SpecEngine == InitEngine /\ [][NextEngine]_vars

(***************************************************************************)
(* process_and_bootstrap_ssm called on a table of several mutations, from  *)
(* its first row to the last file written.                                 *)
(***************************************************************************)
InitAssembler ==
    /\ pc = "proc_loop"
    /\ \E n \in 0..MaxAsmRows : \E ks \in [1..n -> AsmKinds] : proc_df = TableOf(ks)
    /\ proc_idx = 1
    /\ num_bootstraps \in 0..MaxBoot
    /\ all_data = [k \in 1..num_bootstraps |-> <<>>]
    /\ write_i = 0
    /\ input = [kind |-> "none", cols |-> {}, table |-> <<>>]
    /\ output_dir = <<Comp("out")>>
    /\ main_df = <<>>
    /\ filtered_ssm_df = <<>>
    /\ pf_df = <<>> /\ pf_idx = 0 /\ filtered_mutations = <<>>
    /\ AF_list = <<>> /\ Depth_list = <<>> /\ count = 0 /\ new_Depth = <<>>
    /\ floored = FALSE /\ AF_list_update = <<>>
    /\ dirs = {} /\ files = {} /\ exit_code = -1

NextAssembler ==
    \/ ProcIterRow
    \/ BootDraw
    \/ BootCheck
    \/ BootBinomial
    \/ ProcAssemble
    \/ ProcStartWrite
    \/ ProcWrite
    \/ ProcReturn

SpecAssembler == InitAssembler /\ [][NextAssembler]_vars

(***************************************************************************)
(* main: argument handling, reading, the quality gate, the filtered table. *)
(***************************************************************************)
Exit(code) == pc' = "exit" /\ exit_code' = code

\* Line 320: Path(args.output_dir).mkdir(parents=True, exist_ok=True)
MainMkdir ==
    /\ pc = "main"
    /\ dirs' = dirs \cup Prefixes(output_dir)
    /\ pc' = "main_read"
    /\ UNCHANGED <<main_vars, num_bootstraps, pf_vars, proc_vars, boot_vars,
                   files, exit_code>>

\* Lines 326-331: pd.read_csv raises, the run ends with status 1.
MainReadFail ==
    /\ pc = "main_read"
    /\ input.kind \in {"missing", "unreadable"}
    /\ Exit(1)
    /\ UNCHANGED <<main_vars, num_bootstraps, pf_vars, proc_vars, boot_vars, fs_vars>>

\* Line 325: the table is read.
MainRead ==
    /\ pc = "main_read"
    /\ input.kind = "table"
    /\ main_df' = input.table
    /\ pc' = "main_empty"
    /\ UNCHANGED <<input, output_dir, filtered_ssm_df, num_bootstraps, pf_vars,
                   proc_vars, boot_vars, fs_vars, exit_code>>

\* Lines 333-335
MainEmptyExit ==
    /\ pc = "main_empty"
    /\ main_df = <<>>
    /\ Exit(1)
    /\ UNCHANGED <<main_vars, num_bootstraps, pf_vars, proc_vars, boot_vars, fs_vars>>

missing_cols(cols) == required_cols \ cols

\* Lines 338-342
MainMissingColsExit ==
    /\ pc = "main_empty"
    /\ main_df # <<>>
    /\ missing_cols(input.cols) # {}
    /\ Exit(1)
    /\ UNCHANGED <<main_vars, num_bootstraps, pf_vars, proc_vars, boot_vars, fs_vars>>

\* Line 345: the call of apply_vaf_prefiltering (lines 143-146).
MainCallPrefilter ==
    /\ pc = "main_empty"
    /\ main_df # <<>>
    /\ missing_cols(input.cols) = {}
    /\ pf_df' = main_df
    /\ pf_idx' = 1
    /\ filtered_mutations' = <<>>
    /\ pc' = "pf_loop"
    /\ UNCHANGED <<main_vars, num_bootstraps, proc_vars, boot_vars, fs_vars, exit_code>>

\* Line 345: the result is bound to filtered_ssm_df.
MainPrefilterReturn ==
    /\ pc = "pf_done"
    /\ filtered_ssm_df' = filtered_mutations
    /\ pc' = "main_gate"
    /\ UNCHANGED <<input, output_dir, main_df, num_bootstraps, pf_vars, proc_vars,
                   boot_vars, fs_vars, exit_code>>

\* Line 353: len(filtered_ssm_df) < min_mutations
\* Variant: the comparison is <= instead of <.
BelowMinimum_inclusive(df) == Len(df) <= min_mutations
BelowMinimum(df) == Len(df) < min_mutations

\* Lines 347-349
MainAllFilteredExit ==
    /\ pc = "main_gate"
    /\ filtered_ssm_df = <<>>
    /\ Exit(1)
    /\ UNCHANGED <<main_vars, num_bootstraps, pf_vars, proc_vars, boot_vars, fs_vars>>

\* Lines 352-361
\* Variant: the filtered table is saved before the gate ends the run.
MainBelowMinExit_saving ==
    /\ pc = "main_gate"
    /\ filtered_ssm_df # <<>>
    /\ BelowMinimum(filtered_ssm_df)
    /\ files' = WriteFile(files, Append(output_dir, Comp("ssm_filtered.txt")),
                          [header |-> TRUE, rows |-> filtered_ssm_df])
    /\ Exit(1)
    /\ UNCHANGED <<main_vars, num_bootstraps, pf_vars, proc_vars, boot_vars, dirs>>
MainBelowMinExit ==
    /\ pc = "main_gate"
    /\ filtered_ssm_df # <<>>
    /\ BelowMinimum(filtered_ssm_df)
    /\ Exit(1)
    /\ UNCHANGED <<main_vars, num_bootstraps, pf_vars, proc_vars, boot_vars, fs_vars>>

\* Line 363: the quality check passed.
MainGatePass ==
    /\ pc = "main_gate"
    /\ filtered_ssm_df # <<>>
    /\ ~BelowMinimum(filtered_ssm_df)
    /\ pc' = "main_save"
    /\ UNCHANGED <<main_vars, num_bootstraps, pf_vars, proc_vars, boot_vars,
                   fs_vars, exit_code>>

\* parse_config.py, lines 46-47: where the later stages look for the filtered
\* table, base_dir a path and patient_id a name.
patient_base_dir(base_dir, patient_id) == Append(base_dir, Comp(patient_id))
filtered_ssm_file(base_dir, patient_id) ==
    patient_base_dir(base_dir, patient_id) \o <<Comp("initial"), Comp("ssm_filtered.txt")>>

\* Lines 367-374: where the filtered table goes.
\* Variant: the filtered table always goes into the output directory.
filtered_ssm_path_fallback(output_path) == Append(output_path, Comp("ssm_filtered.txt"))
filtered_ssm_path(output_path) ==
    IF /\ Len(output_path) >= 2
       /\ output_path[Len(output_path)].name = "bootstraps"
       /\ output_path[Len(output_path) - 1].name = "initial"
    THEN Append(SubSeq(output_path, 1, Len(output_path) - 1), Comp("ssm_filtered.txt"))
    ELSE Append(output_path, Comp("ssm_filtered.txt"))

\* Lines 376-377: filtered_ssm_df.to_csv(filtered_ssm_path)
\* Variant: the filtered table is not saved.
MainSaveFiltered_skipped ==
    /\ pc = "main_save"
    /\ pc' = "main_process"
    /\ UNCHANGED <<main_vars, num_bootstraps, pf_vars, proc_vars, boot_vars,
                   fs_vars, exit_code>>
MainSaveFiltered ==
    /\ pc = "main_save"
    /\ files' = WriteFile(files, filtered_ssm_path(output_dir),
                          [header |-> TRUE, rows |-> filtered_ssm_df])
    /\ pc' = "main_process"
    /\ UNCHANGED <<main_vars, num_bootstraps, pf_vars, proc_vars, boot_vars,
                   dirs, exit_code>>

\* Line 380: the call of process_and_bootstrap_ssm (line 209).
MainCallProcess ==
    /\ pc = "main_process"
    /\ proc_df' = filtered_ssm_df
    /\ proc_idx' = 1
    /\ all_data' = [k \in 1..num_bootstraps |-> <<>>]
    /\ write_i' = 0
    /\ pc' = "proc_loop"
    /\ UNCHANGED <<main_vars, num_bootstraps, pf_vars, boot_vars, fs_vars, exit_code>>

\* main returns: exit status 0.
MainExit0 ==
    /\ pc = "proc_done"
    /\ Exit(0)
    /\ UNCHANGED <<main_vars, num_bootstraps, pf_vars, proc_vars, boot_vars, fs_vars>>

\* The two shapes of args.output_dir that line 368 tells apart.
OutputDirs ==
    {<<Comp("patient"), Comp("initial"), Comp("bootstraps")>>, <<Comp("out")>>}

Init ==
    /\ pc = "main"
    /\ \/ /\ input \in {[kind |-> k, cols |-> {}, table |-> <<>>] :
                           k \in {"missing", "unreadable"}}
       \/ \E n \in 0..MaxRows : \E ks \in [1..n -> MainKinds] :
             input = [kind |-> "table", cols |-> required_cols, table |-> TableOf(ks)]
       \/ \E c \in required_cols : \E n \in 0..1 : \E ks \in [1..n -> {"good"}] :
             input = [kind |-> "table", cols |-> required_cols \ {c},
                      table |-> TableOf(ks)]
    /\ output_dir \in OutputDirs
    /\ num_bootstraps \in 1..MaxBoot
    /\ main_df = <<>>
    /\ filtered_ssm_df = <<>>
    /\ pf_df = <<>> /\ pf_idx = 0 /\ filtered_mutations = <<>>
    /\ proc_df = <<>> /\ proc_idx = 0 /\ all_data = <<>> /\ write_i = 0
    /\ AF_list = <<>> /\ Depth_list = <<>> /\ count = 0 /\ new_Depth = <<>>
    /\ floored = FALSE /\ AF_list_update = <<>>
    /\ dirs = {} /\ files = {} /\ exit_code = -1

Next ==
    \/ MainMkdir
    \/ MainReadFail
    \/ MainRead
    \/ MainEmptyExit
    \/ MainMissingColsExit
    \/ MainCallPrefilter
    \/ PfIterRow
    \/ PfReturn
    \/ MainPrefilterReturn
    \/ MainAllFilteredExit
    \/ MainBelowMinExit
    \/ MainGatePass
    \/ MainSaveFiltered
    \/ MainCallProcess
    \/ ProcIterRow
    \/ BootDraw
    \/ BootCheck
    \/ BootBinomial
    \/ ProcAssemble
    \/ ProcStartWrite
    \/ ProcWrite
    \/ ProcReturn
    \/ MainExit0

Spec == Init /\ [][Next]_vars

(***************************************************************************)
(* Properties of the resampling engine (checked under SpecEngine).         *)
(***************************************************************************)
\* bootstrap_va_dt has returned to the assembler.
Returned == pc = "proc_assemble"
\* The assembler has regrouped the records of the mutation just resampled.
Assembled == pc = "proc_loop" /\ proc_idx = 2 /\ Depth_list # <<>>
total_depth == Sum(Depth_list)

\* C1 -- Depth conservation: when bootstrap_va_dt returns for a mutation of
\* total depth > 0 without having taken the floor-substitution branch, the
\* resampled depths of each of the B replicates sum exactly to the total depth.
C1_DepthConservation ==
    (Returned /\ total_depth > 0 /\ ~floored) =>
        /\ Len(new_Depth) = num_bootstraps
        /\ \A j \in 1..num_bootstraps : Sum(new_Depth[j]) = total_depth

C1_Witness ==
    /\ Returned /\ total_depth > 0 /\ ~floored
    /\ count > 1 /\ Len(Depth_list) >= 2 /\ num_bootstraps >= 2

\* The steps the retry loop may still take: two per remaining attempt (the
\* draw and its check), one more while a check is pending.
LoopMeasure ==
    2 * (MaxAttempts - count) + (IF pc = "boot_check" THEN 1 ELSE 0)
InLoop == pc \in {"boot_draw", "boot_check"}

\* C2 -- Retry bound and termination: the attempt counter never exceeds 10, a
\* further draw is pending only after fewer than 10 attempts, the floor
\* substitution happens on the 10th attempt only, the loop can always take a
\* step, and each step of the loop strictly decreases a non-negative measure,
\* so that no sequence of draws keeps bootstrap_va_dt from returning.
C2_RetryBoundAndTermination ==
    /\ [](/\ count <= MaxAttempts
          /\ (pc = "boot_draw" => count < MaxAttempts)
          /\ (floored => count = MaxAttempts)
          /\ (InLoop => LoopMeasure >= 0 /\ ENABLED NextEngine))
    /\ [][InLoop => /\ (pc = "boot_draw" => count' = count + 1)
                    /\ (InLoop' => LoopMeasure' < LoopMeasure)]_vars

C2_Witness == Returned /\ floored /\ count = MaxAttempts

\* C3 -- For a mutation of total depth > 0, a cell of the returned depth
\* matrix is 0 exactly when the original depth of its sample was 0.
C3_ZeroIffOriginalZero ==
    (Returned /\ total_depth > 0) =>
        \A j \in 1..num_bootstraps : \A i \in 1..Len(Depth_list) :
            (new_Depth[j][i] = 0) <=> (Depth_list[i] = 0)

\* The floor acted: a replicate sums to more than the total depth.
C3_Witness ==
    /\ Returned /\ floored
    /\ \E j \in 1..num_bootstraps : Sum(new_Depth[j]) > total_depth

\* C4 -- Zero-depth degeneracy: for a mutation of total depth 0 the loop is
\* left after exactly one pass, without the floor branch, with an all-zero
\* depth matrix; the returned VAFs are all 0; every assembled record has
\* every reference count 0 and every depth 0.
C4_ZeroDepthDegeneracy ==
    (Depth_list # <<>> /\ total_depth = 0) =>
        /\ (pc \in {"boot_check", "boot_binom", "proc_assemble"} \/ Assembled) =>
              /\ count = 1
              /\ ~floored
              /\ new_Depth = [j \in 1..num_bootstraps |->
                                 [i \in 1..Len(Depth_list) |-> 0]]
        /\ (Returned \/ Assembled) =>
              \A i \in 1..Len(Depth_list) : \A j \in 1..num_bootstraps :
                  AF_list_update[i][j].num = 0
        /\ Assembled =>
              \A k \in 1..num_bootstraps :
                  /\ Len(all_data[k]) = 1
                  /\ Len(all_data[k][1].a.toks) = Len(Depth_list)
                  /\ Len(all_data[k][1].d.toks) = Len(Depth_list)
                  /\ \A i \in 1..Len(Depth_list) :
                        /\ all_data[k][1].a.toks[i] = Tok(0)
                        /\ all_data[k][1].d.toks[i] = Tok(0)

\* Scenario B: a = "0,0", d = "0,0".
C4_Witness ==
    /\ Assembled /\ Depth_list = <<0, 0>> /\ num_bootstraps = 2
    /\ proc_df[1].a = StrCell(IntToks(<<0, 0>>))

\* C5 -- Count bounds: in every record the assembler produces, every sample
\* has 0 <= reference count <= depth.
C5_CountBounds ==
    \A k \in 1..Len(all_data) : \A m \in 1..Len(all_data[k]) :
        LET rec == all_data[k][m]
        IN  /\ Len(rec.a.toks) = Len(rec.d.toks)
            /\ \A i \in 1..Len(rec.d.toks) :
                  /\ rec.a.toks[i].ok /\ rec.d.toks[i].ok
                  /\ 0 <= rec.a.toks[i].v
                  /\ rec.a.toks[i].v <= rec.d.toks[i].v

\* A replicate the floor acted on (its depths sum to more than the total)
\* with a non-zero reference count.
C5_Witness ==
    /\ Assembled /\ floored
    /\ \E k \in 1..num_bootstraps :
          /\ Sum([i \in 1..Len(Depth_list) |-> all_data[k][1].d.toks[i].v]) > total_depth
          /\ \E i \in 1..Len(Depth_list) : all_data[k][1].a.toks[i].v > 0

(***************************************************************************)
(* Properties of the prefilter (checked under SpecFilter).                 *)
(***************************************************************************)
\* The row's counts can be read: both lists parse and have the same length.
WellFormed(row) ==
    /\ ~(row.a.tag = "str" /\ row.d.tag = "int")
    /\ Len(row.a.toks) = Len(row.d.toks)
    /\ \A i \in 1..Len(row.a.toks) : row.a.toks[i].ok /\ row.d.toks[i].ok
RowRef(row, i) == row.a.toks[i].v
RowDepth(row, i) == row.d.toks[i].v
\* Sample i of the row is valid: 0 <= reference <= depth.
IsValid(row, i) == 0 <= RowRef(row, i) /\ RowRef(row, i) <= RowDepth(row, i)
\* (depth - reference)/depth >= 9/10, a sample of depth 0 having VAF 0.
IsHigh(row, i) ==
    RowDepth(row, i) > 0 /\ 10 * (RowDepth(row, i) - RowRef(row, i)) >= 9 * RowDepth(row, i)
\* Row i of the input has been examined and is not among the survivors.
Removed(i) ==
    /\ i < pf_idx
    /\ \A m \in 1..Len(filtered_mutations) : filtered_mutations[m].id # pf_df[i].id

\* C6 -- Prefilter soundness: every surviving mutation has at least one valid
\* sample, and every valid sample of it has VAF < 0.9 (VAF 0 at depth 0).
C6_PrefilterSoundness ==
    \A m \in 1..Len(filtered_mutations) :
        LET row == filtered_mutations[m]
        IN  /\ WellFormed(row)
            /\ \E i \in 1..Len(row.a.toks) : IsValid(row, i)
            /\ \A i \in 1..Len(row.a.toks) : IsValid(row, i) => ~IsHigh(row, i)

\* A returned table holding a survivor with a valid sample of depth 0, from
\* an input with a mutation at exactly VAF 0.9 that was removed.
C6_Witness ==
    /\ pc = "pf_done"
    /\ \E m \in 1..Len(filtered_mutations) :
          \E i \in 1..Len(filtered_mutations[m].d.toks) :
             RowDepth(filtered_mutations[m], i) = 0 /\ IsValid(filtered_mutations[m], i)
    /\ \E i \in 1..Len(pf_df) :
          Removed(i) /\ pf_df[i].a = IntCell(1) /\ pf_df[i].d = IntCell(10)

\* C7 as claimed -- every removed mutation has at least one valid sample
\* with VAF >= 0.9.
C7_Original ==
    \A i \in 1..Len(pf_df) :
        Removed(i) =>
            /\ WellFormed(pf_df[i])
            /\ \E k \in 1..Len(pf_df[i].a.toks) :
                  IsValid(pf_df[i], k) /\ IsHigh(pf_df[i], k)

\* C7 -- Prefilter completeness, amended: every removed mutation is
\* malformed (unparseable counts or a length mismatch), or has no valid
\* sample, or has at least one valid sample with VAF >= 0.9.
C7_PrefilterCompleteness ==
    \A i \in 1..Len(pf_df) :
        Removed(i) =>
            \/ ~WellFormed(pf_df[i])
            \/ ~(\E k \in 1..Len(pf_df[i].a.toks) : IsValid(pf_df[i], k))
            \/ \E k \in 1..Len(pf_df[i].a.toks) :
                  IsValid(pf_df[i], k) /\ IsHigh(pf_df[i], k)

\* A returned table from an input with a removed high-VAF mutation, a removed
\* malformed one and a removed one without valid samples.
C7_Witness ==
    /\ pc = "pf_done"
    /\ \E i \in 1..Len(pf_df) :
          /\ Removed(i) /\ WellFormed(pf_df[i])
          /\ \E k \in 1..Len(pf_df[i].a.toks) : IsValid(pf_df[i], k) /\ IsHigh(pf_df[i], k)
    /\ \E i \in 1..Len(pf_df) : Removed(i) /\ ~WellFormed(pf_df[i])
    /\ \E i \in 1..Len(pf_df) :
          /\ Removed(i) /\ WellFormed(pf_df[i])
          /\ ~(\E k \in 1..Len(pf_df[i].a.toks) : IsValid(pf_df[i], k))

(***************************************************************************)
(* Properties of main (checked under Spec).                                *)
(***************************************************************************)
FilteredTableWritten ==
    \E f \in files : f.path[Len(f.path)].name = "ssm_filtered.txt"
ReplicateDirExists ==
    \E p \in dirs : p[Len(p)].name = "bootstrap"
ReplicateDir(k) ==
    \E p \in dirs : p[Len(p)] = [name |-> "bootstrap", n |-> k]

\* C8 -- Quality gate boundary: at the gate a count of 0..4 survivors leads
\* to exit status 1 with nothing written, a count of 5 or more leads on to
\* the writing of the filtered table; the gate never blocks; a run that ends
\* with fewer than 5 survivors ends with status 1, and a run that ends with
\* status 0 had at least 5, wrote the filtered table and every replicate.
C8_QualityGateBoundary ==
    /\ [][pc = "main_gate" =>
             IF Len(filtered_ssm_df) <= 4
             THEN pc' = "exit" /\ exit_code' = 1 /\ files' = files /\ dirs' = dirs
             ELSE pc' = "main_save" /\ exit_code' = exit_code]_vars
    /\ [](pc \in {"main_gate", "main_save", "main_process"} => ENABLED Next)
    /\ []((pc = "exit" /\ Len(filtered_ssm_df) <= 4) => exit_code = 1)
    /\ [](exit_code = 0 =>
             /\ Len(filtered_ssm_df) >= 5
             /\ FilteredTableWritten
             /\ \A k \in 1..num_bootstraps : ReplicateDir(k))

\* Exactly 4 survivors: the run has ended with status 1.
C8_Witness ==
    /\ pc = "exit" /\ exit_code = 1
    /\ pf_idx > Len(pf_df) /\ Len(pf_df) > 4
    /\ Len(filtered_ssm_df) = 4

\* One of the fatal conditions of main holds of the run that has ended.
FatalCondition ==
    \/ input.kind \in {"missing", "unreadable"}
    \/ input.table = <<>>
    \/ input.cols # {"id", "gene", "a", "d", "mu_r", "mu_v"}
    \/ Len(filtered_mutations) <= 4

\* C9 -- Every fatal condition ends the run with exit status 1, no other run
\* ends with status 1, and in every state of status 1 the run has written no
\* file at all and created no replicate directory.
C9_FatalExitsWriteNothing ==
    /\ exit_code = 1 => pc = "exit" /\ files = {} /\ ~ReplicateDirExists
    /\ pc = "exit" => /\ exit_code \in {0, 1}
                      /\ (exit_code = 1 <=> FatalCondition)

\* Scenario D: 3 mutations survive the prefilter.
C9_Witness ==
    /\ pc = "exit" /\ exit_code = 1
    /\ input.kind = "table" /\ Len(filtered_mutations) = 3 /\ Len(pf_df) > 3

\* C10 -- Output ordering: a replicate directory exists only when the
\* filtered table exists; the filtered table exists only once the gate has
\* passed (at least 5 survivors) and holds the survivors; right after it is
\* written no replicate directory exists yet.
C10_OutputOrdering ==
    /\ ReplicateDirExists => FilteredTableWritten
    /\ FilteredTableWritten =>
          /\ Len(filtered_ssm_df) >= 5
          /\ pc \notin {"main", "main_read", "main_empty", "pf_loop", "pf_done",
                        "main_gate", "main_save"}
          /\ \A f \in files :
                f.path[Len(f.path)].name = "ssm_filtered.txt" =>
                    f.data = [header |-> TRUE, rows |-> filtered_ssm_df]
    /\ pc = "main_process" => FilteredTableWritten /\ ~ReplicateDirExists

\* The first replicate directory has just been created.
C10_Witness ==
    /\ pc = "proc_write" /\ write_i = 1
    /\ ReplicateDir(1) /\ ~ReplicateDir(2)
    /\ FilteredTableWritten

(***************************************************************************)
(* Properties of the assembler and the writer (checked under               *)
(* SpecAssembler).                                                         *)
(***************************************************************************)
\* The assembler does not skip the row: its counts can be read and at least
\* one of its samples is valid.
Accepted(row) ==
    WellFormed(row) /\ \E i \in 1..Len(row.a.toks) : IsValid(row, i)
\* The ids of the accepted rows among the first n rows, in table order.
AcceptedIds(n) ==
    LET acc == SelectSeq(SubSeq(proc_df, 1, n), Accepted)
    IN  [m \in 1..Len(acc) |-> acc[m].id]
IdsOf(records) == [m \in 1..Len(records) |-> records[m].id]
IsPrefix(s, t) == Len(s) <= Len(t) /\ SubSeq(t, 1, Len(s)) = s
\* The assembler hands a mutation to bootstrap_va_dt in this step.
EngineCall == pc = "proc_loop" /\ pc' = "boot_draw"
InEngine == pc \in {"boot_draw", "boot_check", "boot_binom"}

\* C11 -- Assembler regrouping: the engine is invoked exactly once per
\* non-skipped mutation (only from the row loop, only for an accepted row
\* that has no record yet, and its return is followed by one regrouping that
\* moves to the next row); every replicate k in 1..B holds exactly one record
\* per non-skipped mutation processed so far, in table order, so all
\* replicates have the same id sequence; each record carries id, gene, mu_r
\* and mu_v of its input row; the record appended for a mutation holds the
\* k-th resampled column, and no later step changes it.
C11_AssemblerRegrouping ==
    /\ [](\A k \in 1..num_bootstraps :
            /\ IdsOf(all_data[k]) = AcceptedIds(proc_idx - 1)
            /\ \A m \in 1..Len(all_data[k]) :
                  LET rec == all_data[k][m]
                      row == proc_df[rec.id]
                  IN  /\ rec.gene = row.gene
                      /\ rec.mu_r = row.mu_r
                      /\ rec.mu_v = row.mu_v)
    /\ []((InEngine \/ pc = "proc_assemble") =>
            proc_idx <= Len(proc_df) /\ Accepted(proc_df[proc_idx]))
    /\ [][/\ (EngineCall => proc_idx' = proc_idx)
          /\ (pc' = "boot_draw" => pc \in {"proc_loop", "boot_check"})
          /\ (pc = "proc_loop" /\ proc_idx' # proc_idx =>
                 ~Accepted(proc_df[proc_idx]) /\ proc_idx' = proc_idx + 1)
          /\ (InEngine => proc_idx' = proc_idx /\ all_data' = all_data)
          /\ (pc = "proc_assemble" =>
                 /\ pc' = "proc_loop" /\ proc_idx' = proc_idx + 1
                 /\ \A k \in 1..num_bootstraps :
                       /\ Len(all_data'[k]) = Len(all_data[k]) + 1
                       /\ LET rec == all_data'[k][Len(all_data'[k])]
                          IN  /\ rec.id = proc_df[proc_idx].id
                              /\ rec.d = StrCell(IntToks(new_Depth[k]))
                              /\ rec.a = StrCell(IntToks(
                                    [i \in 1..Len(Depth_list) |->
                                        LET d == new_Depth[k][i]
                                            vaf == AF_list_update[i][k]
                                        IN  Max(0, Min(d, d - RoundHalfEven(vaf.num * d, vaf.den)))])))
          /\ \A k \in 1..num_bootstraps : IsPrefix(all_data[k], all_data'[k])]_vars

\* A finished run with two replicates on a table whose first mutation was
\* skipped and whose second was resampled differently in the two replicates.
C11_Witness ==
    /\ pc = "proc_done"
    /\ num_bootstraps = 2
    /\ Len(proc_df) = 2
    /\ ~Accepted(proc_df[1]) /\ Accepted(proc_df[2])
    /\ all_data[1] # all_data[2]

\* The replicate subdirectories that exist, and the files directly in one.
ReplicateDirs == {p \in dirs : p[Len(p)].name = "bootstrap"}
FilesIn(dir) == {f \in files : SubSeq(f.path, 1, Len(f.path) - 1) = dir}
\* The number of replicates written so far.
Written == IF pc \in {"proc_write", "proc_done"} THEN write_i ELSE 0

\* C12 -- Output writer: the replicate subdirectories are exactly those
\* indexed 1..(number of replicates written), so a finished run with B
\* replicates has exactly bootstrap1..bootstrapB under the output directory
\* (none for index 0 or B+1); each holds exactly two files, the mutation
\* table with its header and the replicate's records, and the empty
\* copy-number placeholder; a replicate without records gives a header-only
\* table, and the writing loop is never blocked.
C12_OutputWriter ==
    /\ ReplicateDirs = {Append(output_dir, [name |-> "bootstrap", n |-> k]) : k \in 1..Written}
    /\ (pc = "proc_done" => Written = num_bootstraps)
    /\ (pc = "proc_write" => ENABLED NextAssembler)
    /\ \A k \in 1..Written :
          LET sub == Append(output_dir, [name |-> "bootstrap", n |-> k])
          IN  FilesIn(sub) =
                 {[path |-> Append(sub, Comp("ssm.txt")),
                   data |-> [header |-> TRUE, rows |-> all_data[k]]],
                  [path |-> Append(sub, Comp("cnv.txt")),
                   data |-> [header |-> FALSE, rows |-> <<>>]]}
    /\ \A f \in files :
          (f.path[Len(f.path)].name = "ssm.txt" /\ f.data.rows = <<>>) => f.data.header

\* A finished run with two replicates on a table of two mutations that were
\* both skipped: two header-only tables and two placeholders.
C12_Witness ==
    /\ pc = "proc_done"
    /\ num_bootstraps = 2
    /\ Len(proc_df) = 2
    /\ Cardinality(ReplicateDirs) = 2
    /\ Cardinality(files) = 4
    /\ \A f \in files : f.data.rows = <<>>

\* The number of samples of an input row: the entries of its column a.
NumSamples(row) == Len(row.a.toks)

\* C13 -- Count encoding, as claimed: in every replicate record a and d have
\* the same number of entries, which is the number of samples of the input
\* row of the same id; so a single-sample mutation is written as one bare
\* count and a multi-sample mutation as a list with one entry per input
\* sample.  (A cell of n entries is written with n - 1 commas.)
C13_CountEncoding ==
    \A k \in 1..num_bootstraps :
        \A m \in 1..Len(all_data[k]) :
            LET rec == all_data[k][m]
                row == proc_df[rec.id]
            IN  /\ Len(rec.a.toks) = Len(rec.d.toks)
                /\ Len(rec.a.toks) = NumSamples(row)

(***************************************************************************)
(* The location of the filtered table (checked under Spec).                *)
(***************************************************************************)
FilteredFiles == {f \in files : f.path[Len(f.path)].name = "ssm_filtered.txt"}
Parent(path) == SubSeq(path, 1, Len(path) - 1)
\* The path lies inside the directory dir.
Inside(path, dir) == Len(path) > Len(dir) /\ SubSeq(path, 1, Len(dir)) = dir
\* The layout <patient_base>/initial/bootstraps that the pipeline uses.
StandardLayout(dir) ==
    /\ Len(dir) >= 2
    /\ dir[Len(dir)].name = "bootstraps"
    /\ dir[Len(dir) - 1].name = "initial"

\* C14 as claimed -- for every output directory a successful run has written
\* the filtered table in the output directory's parent, and no filtered
\* table inside the output directory.
C14_Original ==
    exit_code = 0 =>
        /\ \E f \in FilteredFiles : Parent(f.path) = Parent(output_dir)
        /\ \A f \in FilteredFiles : ~Inside(f.path, output_dir)

\* C14 -- Filtered-table location, amended: a successful run has written the
\* filtered table exactly once (one file, created by one step, never touched
\* again); for an output directory <base>/initial/bootstraps it lies in the
\* parent <base>/initial, outside the replicate output root, where
\* parse_config.py points the later stages; for any other output directory
\* it lies inside the output directory itself.
C14_FilteredTableLocation ==
    /\ [](exit_code = 0 => FilteredFiles # {})
    /\ [](\A f \in FilteredFiles :
            /\ FilteredFiles = {f}
            /\ f.data.rows = filtered_ssm_df
            /\ IF StandardLayout(output_dir)
               THEN /\ Parent(f.path) = Parent(output_dir)
                    /\ ~Inside(f.path, output_dir)
                    /\ (output_dir = patient_base_dir(<<>>, "patient")
                                         \o <<Comp("initial"), Comp("bootstraps")>>
                          => f.path = filtered_ssm_file(<<>>, "patient"))
               ELSE Parent(f.path) = output_dir)
    /\ [][/\ (FilteredFiles' # FilteredFiles => FilteredFiles = {} /\ pc = "main_save")
          /\ (FilteredFiles # {} => FilteredFiles' = FilteredFiles)]_vars

\* A successful run on an output directory outside the standard layout: the
\* filtered table lies inside it, next to the replicate directories.
C14_Witness ==
    /\ exit_code = 0
    /\ ~StandardLayout(output_dir)
    /\ \E f \in FilteredFiles : Inside(f.path, output_dir)
    /\ \E p \in dirs : p[Len(p)].name = "bootstrap" /\ Parent(p) = output_dir

(***************************************************************************)
(* The prefilter's frame (checked under SpecFilter).                       *)
(***************************************************************************)
\* Row i of the input passes every test of the prefilter.
Qualifies(i) ==
    /\ WellFormed(pf_df[i])
    /\ \E k \in 1..Len(pf_df[i].a.toks) : IsValid(pf_df[i], k)
    /\ \A k \in 1..Len(pf_df[i].a.toks) : IsValid(pf_df[i], k) => ~IsHigh(pf_df[i], k)

\* C15 -- Prefilter frame: the survivors are a sub-sequence of the rows
\* examined so far: each survivor is an input row with all six fields
\* unchanged (the row at the position its id names), the positions strictly
\* increase (input order, no duplicate, nothing invented); a malformed row is
\* dropped and the loop goes on: it is never blocked, the table is returned
\* only after every row was examined, and every row that qualifies is among
\* the survivors wherever the malformed rows stand.
C15_PrefilterFrame ==
    /\ \A m \in 1..Len(filtered_mutations) :
          /\ filtered_mutations[m].id \in 1..(pf_idx - 1)
          /\ filtered_mutations[m] = pf_df[filtered_mutations[m].id]
          /\ m > 1 => filtered_mutations[m - 1].id < filtered_mutations[m].id
    /\ (pc = "pf_loop" => ENABLED NextFilter)
    /\ (pc = "pf_done" => pf_idx = Len(pf_df) + 1)
    /\ \A i \in 1..(pf_idx - 1) :
          /\ ~WellFormed(pf_df[i]) => Removed(i)
          /\ Qualifies(i) => ~Removed(i)

\* A returned table of two survivors with a malformed row between them in
\* the input.
C15_Witness ==
    /\ pc = "pf_done"
    /\ Len(pf_df) = 3
    /\ ~WellFormed(pf_df[2])
    /\ Len(filtered_mutations) = 2
    /\ filtered_mutations[1] = pf_df[1]
    /\ filtered_mutations[2] = pf_df[3]

(***************************************************************************)
(* The assembler on the prefilter's output (checked under SpecAssembler).  *)
(***************************************************************************)
\* The prefilter keeps or drops each row on its own, so its outputs are the
\* tables all of whose rows it keeps.
IsPrefilterOutput ==
    \A i \in 1..Len(proc_df) : PrefilterKeeps(proc_df[i], ThresholdNum, ThresholdDen)
IdSet(records) == {records[m].id : m \in 1..Len(records)}

FloorStep == pc = "boot_check" /\ ~floored /\ floored'
\* The samples whose original depth is non-zero.
NonZeroSamples == {i \in 1..Len(Depth_list) : Depth_list[i] > 0}
\* The cells of replicate j that the step changes.
FlooredCells(j) == {i \in 1..Len(Depth_list) : new_Depth'[j][i] # new_Depth[j][i]}

\* C17 -- Bounded floor bias: the floor is substituted only when the total
\* depth is positive and the 10th batch has a zero cell; the step takes each
\* replicate from a depth sum of total_depth to total_depth plus the number
\* of its cells floored (each from 0 to 1); so from then on every replicate's
\* depth sum is at least total_depth and exceeds it by at most the number of
\* samples of non-zero original depth, minus one.
C17_BoundedFloorBias ==
    /\ [][FloorStep =>
            /\ total_depth > 0
            /\ count = MaxAttempts
            /\ \E j \in 1..num_bootstraps : \E i \in 1..Len(Depth_list) : new_Depth[j][i] = 0
            /\ \A j \in 1..num_bootstraps :
                  /\ Sum(new_Depth[j]) = total_depth
                  /\ Sum(new_Depth'[j]) = total_depth + Cardinality(FlooredCells(j))
                  /\ \A i \in FlooredCells(j) :
                        new_Depth[j][i] = 0 /\ new_Depth'[j][i] = 1]_vars
    /\ [](floored =>
            \A j \in 1..num_bootstraps :
                /\ Sum(new_Depth[j]) >= total_depth
                /\ Sum(new_Depth[j]) <= total_depth + Cardinality(NonZeroSamples) - 1)

\* A return after floor substitution with two or more samples of non-zero
\* depth, one replicate at the upper bound and another left at total_depth.
C17_Witness ==
    /\ Returned /\ floored
    /\ Cardinality(NonZeroSamples) >= 2
    /\ \E j \in 1..num_bootstraps :
          Sum(new_Depth[j]) = total_depth + Cardinality(NonZeroSamples) - 1
    /\ \E j \in 1..num_bootstraps : Sum(new_Depth[j]) = total_depth

\* The mutation in the engine has a positive total depth and a sample whose
\* original depth is 0.
HasZeroSample ==
    total_depth > 0 /\ \E i \in 1..Len(Depth_list) : Depth_list[i] = 0

====
